---- MODULE Spec2Model ----
(***************************************************************************)
(* Model of the blog-generation flow of write_a_technical_blog/main.py:    *)
(* the roadmap document writer and parser, the BlogFlow two-phase flow     *)
(* (generate_blog_roadmap, write_blog_posts) and the kickoff entry point.  *)
(*                                                                         *)
(* Text is a sequence of tokens.  A token is one character ("a", " ",      *)
(* "\n", "/", a digit, ...) or one literal of the document format that the *)
(* code writes and the regular expressions of parse_roadmap_file look for  *)
(* ("## Topic: ", "## Goal", "## Planned Posts", "### ").                  *)
(***************************************************************************)
EXTENDS Integers, Sequences, FiniteSets, TLC

\* ------------------------------------------------------------------------
\* Bounds
\* ------------------------------------------------------------------------
MaxPosts == 3
MaxOutlines == 2

\* ------------------------------------------------------------------------
\* Tokens and text helpers
\* ------------------------------------------------------------------------
NL == "\n"
SP == " "
H1 == "# Blog Series Roadmap"
TOPIC == "## Topic: "
GOAL == "## Goal"
PLANNED == "## Planned Posts"
H3 == "### "
DOT == "."

DigitTok == <<"0", "1", "2", "3", "4", "5", "6", "7", "8", "9">>

IsDigit(c) == \E d \in 1..10 : DigitTok[d] = c

\* str.strip() removes leading and trailing whitespace
IsSpace(c) == c \in {SP, NL}

RECURSIVE LStrip(_)
LStrip(s) == IF s # <<>> /\ IsSpace(Head(s)) THEN LStrip(Tail(s)) ELSE s

RECURSIVE RStrip(_)
RStrip(s) ==
    IF s # <<>> /\ IsSpace(s[Len(s)]) THEN RStrip(SubSeq(s, 1, Len(s) - 1)) ELSE s

Strip(s) == RStrip(LStrip(s))

\* f"{i}": the decimal digits of a natural number
RECURSIVE Digits(_)
Digits(n) ==
    IF n < 10 THEN <<DigitTok[n + 1]>>
    ELSE Digits(n \div 10) \o <<DigitTok[(n % 10) + 1]>>

\* the text at position p of s starts with pat
HasAt(s, p, pat) ==
    /\ p >= 1
    /\ p + Len(pat) - 1 <= Len(s)
    /\ SubSeq(s, p, p + Len(pat) - 1) = pat

\* first position >= p holding a newline, or Len(s)+1
RECURSIVE LineEnd(_, _)
LineEnd(s, p) ==
    IF p > Len(s) \/ s[p] = NL THEN p ELSE LineEnd(s, p + 1)

\* first position >= p that is not a digit, or Len(s)+1
RECURSIVE DigitsEnd(_, _)
DigitsEnd(s, p) ==
    IF p > Len(s) \/ ~IsDigit(s[p]) THEN p ELSE DigitsEnd(s, p + 1)

\* least element of a non-empty set of integers
Min(S) == CHOOSE x \in S : \A y \in S : x <= y

\* ------------------------------------------------------------------------
\* The roadmap document: writer (generate_blog_roadmap) and parser
\* ------------------------------------------------------------------------
\* variant: a single newline between title and description
PostEntryOneNewline(i, post) ==
    <<H3>> \o Digits(i) \o <<DOT, SP>> \o post.title \o <<NL>>
        \o post.description \o <<NL, NL>>

\* one "### i. title\n\ndescription\n\n" entry
PostEntry(i, post) ==
    <<H3>> \o Digits(i) \o <<DOT, SP>> \o post.title \o <<NL, NL>>
        \o post.description \o <<NL, NL>>

RECURSIVE PostEntries(_, _)
PostEntries(posts, i) ==
    IF i > Len(posts) THEN <<>>
    ELSE PostEntry(i, posts[i]) \o PostEntries(posts, i + 1)

\* roadmap_content as built by generate_blog_roadmap
RoadmapContent(topic, goal, posts) ==
    <<H1, NL, NL>>
        \o <<TOPIC>> \o topic \o <<NL, NL>>
        \o <<GOAL, NL>> \o goal \o <<NL, NL>>
        \o <<PLANNED, NL, NL>>
        \o PostEntries(posts, 1)

\* re.search(r"## Topic: (.+?)(?:\n|$)"): "." does not match a newline, so
\* the marker must be followed by at least one character of the same line
TopicMatchAt(s, p) ==
    /\ HasAt(s, p, <<TOPIC>>)
    /\ p + 1 <= Len(s)
    /\ s[p + 1] # NL

ParseTopic(s) ==
    LET M == {p \in 1..Len(s) : TopicMatchAt(s, p)}
    IN  IF M = {} THEN <<>>
        ELSE LET p == Min(M)
             IN  Strip(SubSeq(s, p + 1, LineEnd(s, p + 1) - 1))

\* re.search(r"## Goal\n(.*?)\n\n## Planned Posts", re.DOTALL)
GoalEnds(s, p) ==
    {q \in (p + 2)..Len(s) : HasAt(s, q, <<NL, NL, PLANNED>>)}

GoalMatchAt(s, p) ==
    /\ HasAt(s, p, <<GOAL, NL>>)
    /\ GoalEnds(s, p) # {}

ParseGoal(s) ==
    LET M == {p \in 1..Len(s) : GoalMatchAt(s, p)}
    IN  IF M = {} THEN <<>>
        ELSE LET p == Min(M)
             IN  Strip(SubSeq(s, p + 2, Min(GoalEnds(s, p)) - 1))

\* the lookahead (?=\n\n### \d+\.|$) holds at position e ("$" also matches
\* just before a final newline)
PostLookahead(s, e) ==
    \/ e = Len(s) + 1
    \/ e = Len(s) /\ s[e] = NL
    \/ /\ HasAt(s, e, <<NL, NL, H3>>)
       /\ LET d == DigitsEnd(s, e + 3)
          IN  d > e + 3 /\ d <= Len(s) /\ s[d] = DOT

\* start of the title if "### \d+\. " matches at p, else 0
TitleStart(s, p) ==
    IF ~HasAt(s, p, <<H3>>) THEN 0
    ELSE LET d == DigitsEnd(s, p + 1)
         IN  IF d > p + 1 /\ HasAt(s, d, <<DOT, SP>>) THEN d + 2 ELSE 0

\* (.+?)\n\n under DOTALL: at least one character, up to the first blank line
TitleEnds(s, t0) ==
    {t1 \in (t0 + 1)..Len(s) : HasAt(s, t1, <<NL, NL>>)}

PostMatchAt(s, p) ==
    /\ TitleStart(s, p) # 0
    /\ TitleEnds(s, TitleStart(s, p)) # {}

\* the match of the post pattern at p: title, description, position after it
PostMatch(s, p) ==
    LET t0 == TitleStart(s, p)
        t1 == Min(TitleEnds(s, t0))
        ds == t1 + 2
        e  == Min({x \in ds..(Len(s) + 1) : PostLookahead(s, x)})
    IN  [title |-> Strip(SubSeq(s, t0, t1 - 1)),
         description |-> Strip(SubSeq(s, ds, e - 1)),
         next |-> e]

\* re.finditer: successive non-overlapping matches, left to right
RECURSIVE PostSections(_, _)
PostSections(s, from) ==
    LET M == {p \in from..Len(s) : PostMatchAt(s, p)}
    IN  IF M = {} THEN <<>>
        ELSE LET m == PostMatch(s, Min(M))
             IN  <<[title |-> m.title, description |-> m.description]>>
                     \o PostSections(s, m.next)

\* variant: the posts are looked for only when the goal section was found
parse_roadmap_file_needs_goal(content) ==
    [topic |-> ParseTopic(content),
     goal |-> ParseGoal(content),
     post_outlines |->
         IF \E p \in 1..Len(content) : GoalMatchAt(content, p)
           THEN PostSections(content, 1) ELSE <<>>]

\* parse_roadmap_file applied to the text of the file
parse_roadmap_file(content) ==
    [topic |-> ParseTopic(content),
     goal |-> ParseGoal(content),
     post_outlines |-> PostSections(content, 1)]

\* ------------------------------------------------------------------------
\* State
\* ------------------------------------------------------------------------
VARIABLES
    pc,             \* position of the run
    call,           \* the call that started the run and its arguments
    skip_planning,  \* BlogFlow.skip_planning
    roadmap_file,   \* BlogFlow.roadmap_file
    topic,          \* BlogState.topic
    goal,           \* BlogState.goal
    blog_roadmap,   \* BlogState.blog_roadmap
    blog_posts,     \* BlogState.blog_posts
    disk,           \* the files: file name -> content
    writes,         \* the files written by the run, in order
    planner_calls,  \* inputs of the BlogPlanningCrew kickoffs of the run
    writer_calls,   \* inputs of the BlogWritingCrew kickoffs of the run
    log,            \* records written to the "blog_generator" logger
    idx,            \* loop index i of write_blog_posts
    output,         \* the writer's output being processed
    error,          \* the exception that left the run, if any
    crew_raised,    \* the exception a crew call raised, if any, and the call
    writer_returns, \* what the writing crew returned, call by call
    rt_pc,          \* round trip: position
    rt_topic,       \* round trip: topic written
    rt_goal,        \* round trip: goal written
    rt_posts,       \* round trip: outlines written
    rt_doc,         \* round trip: the document text
    rt_absent,      \* sections left out of a hand-made document
    rt_parsed,      \* round trip: result of parse_roadmap_file
    m_pc,           \* two runs: position of each run
    m_skip,         \* two runs: each BlogFlow's skip_planning
    m_state,        \* two runs: each BlogFlow's state (lists held by reference)
    m_heap,         \* two runs: the list objects of the process
    m_idx,          \* two runs: each run's loop index
    m_hist,         \* two runs: what each run's own crews and parser returned
    m_disk          \* two runs: text of output/Blog_Series_Roadmap.md

flow_vars == <<pc, call, skip_planning, roadmap_file, topic, goal,
               blog_roadmap, blog_posts, disk, writes, planner_calls,
               writer_calls, log, idx, output, error, crew_raised,
               writer_returns>>

rt_vars == <<rt_pc, rt_topic, rt_goal, rt_posts, rt_doc, rt_absent, rt_parsed>>

two_vars == <<m_pc, m_skip, m_state, m_heap, m_idx, m_hist, m_disk>>

vars == <<flow_vars, rt_vars, two_vars>>


\* ------------------------------------------------------------------------
\* Round trip of the roadmap document: write as generate_blog_roadmap does,
\* then parse with parse_roadmap_file
\* ------------------------------------------------------------------------
RTTopics == {<<>>, <<"a">>, <<"a", SP, "b">>, <<SP, "a">>, <<"a", NL, "b">>}

RTGoals == {<<>>, <<"a">>, <<"a", NL, NL, "b">>, <<NL, SP, "a", NL, SP>>,
            <<"a", NL, NL, PLANNED, NL, "b">>}

RTTitles == {<<"a">>, <<"a", SP, "b">>, <<"b", SP>>}

RTDescriptions == {<<"a">>, <<"a", NL, NL, "b">>, <<NL, "b">>,
                   <<"a", NL, NL, H3, "1", DOT, SP, "b", NL, NL, "b">>}

RTNoResult == [topic |-> <<>>, goal |-> <<>>, post_outlines |-> <<>>]

RTOutlines == [title : RTTitles, description : RTDescriptions]

RTIdle ==
    /\ rt_pc = "idle"
    /\ rt_topic = <<>>
    /\ rt_goal = <<>>
    /\ rt_posts = <<>>
    /\ rt_doc = <<>>
    /\ rt_absent = {}
    /\ rt_parsed = RTNoResult

RTInit ==
    /\ rt_pc = "input"
    /\ rt_topic \in RTTopics
    /\ rt_goal \in RTGoals
    /\ rt_posts = <<>>
    /\ rt_doc = <<>>
    /\ rt_absent = {}
    /\ rt_parsed = RTNoResult

\* one more outline in the planner's list
RTAddOutline(o) ==
    /\ rt_pc = "input"
    /\ Len(rt_posts) < MaxOutlines
    /\ rt_posts' = Append(rt_posts, o)
    /\ UNCHANGED <<rt_pc, rt_topic, rt_goal, rt_doc, rt_absent, rt_parsed>>

\* the document is written
RTWrite ==
    /\ rt_pc = "input"
    /\ rt_doc' = RoadmapContent(rt_topic, rt_goal, rt_posts)
    /\ rt_pc' = "written"
    /\ UNCHANGED <<rt_topic, rt_goal, rt_posts, rt_absent, rt_parsed>>

\* the document is parsed
RTParse ==
    /\ rt_pc = "written"
    /\ rt_parsed' = parse_roadmap_file(rt_doc)
    /\ rt_pc' = "parsed"
    /\ UNCHANGED <<rt_topic, rt_goal, rt_posts, rt_doc, rt_absent>>

RTNext ==
    \/ \E o \in RTOutlines : RTAddOutline(o) /\ UNCHANGED <<flow_vars, two_vars>>
    \/ RTWrite /\ UNCHANGED <<flow_vars, two_vars>>
    \/ RTParse /\ UNCHANGED <<flow_vars, two_vars>>

\* ------------------------------------------------------------------------
\* Parsing a roadmap document that lacks sections: the text of a file that
\* was edited by hand, given to parse_roadmap_file
\* ------------------------------------------------------------------------
DocTopics == {<<"a", SP, "b">>, <<SP, "a">>}

DocGoals == {<<"a">>, <<"a", NL, NL, "b">>}

DocSections == {"topic", "goal", "planned"}

\* the roadmap document format without the sections in absent
DocumentWithout(absent, t, g, posts) ==
    <<H1, NL, NL>>
        \o (IF "topic" \in absent THEN <<>> ELSE <<TOPIC>> \o t \o <<NL, NL>>)
        \o (IF "goal" \in absent THEN <<>> ELSE <<GOAL, NL>> \o g \o <<NL, NL>>)
        \o (IF "planned" \in absent THEN <<>> ELSE <<PLANNED, NL, NL>>)
        \o PostEntries(posts, 1)

DocInit ==
    /\ rt_pc = "input"
    /\ rt_topic \in DocTopics
    /\ rt_goal \in DocGoals
    /\ rt_posts = <<>>
    /\ rt_doc = <<>>
    /\ rt_absent \in SUBSET DocSections
    /\ rt_parsed = RTNoResult

\* the document is put together
DocWrite ==
    /\ rt_pc = "input"
    /\ rt_doc' = DocumentWithout(rt_absent, rt_topic, rt_goal, rt_posts)
    /\ rt_pc' = "written"
    /\ UNCHANGED <<rt_topic, rt_goal, rt_posts, rt_absent, rt_parsed>>

DocNext ==
    \/ \E o \in RTOutlines : RTAddOutline(o) /\ UNCHANGED <<flow_vars, two_vars>>
    \/ DocWrite /\ UNCHANGED <<flow_vars, two_vars>>
    \/ RTParse /\ UNCHANGED <<flow_vars, two_vars>>

\* ------------------------------------------------------------------------
\* The program's constants and the values its collaborators may supply
\* ------------------------------------------------------------------------
\* BlogState defaults; the default goal is a triple-quoted text that starts
\* with a newline and ends with a newline and indentation
None == <<"None">>

DefaultTopic == <<"a", SP, "b">>
DefaultGoal == <<NL, SP, "a", SP, "b", NL, SP>>

RoadmapPath == <<"output/", "Blog_Series_Roadmap.md">>
NoGoalPath == <<"no_goal.md">>
BlankPath == <<"blank.md">>
MissingPath == <<"missing.md">>
EmptyPath == <<>>

Outline1 == [title |-> <<"a">>, description |-> <<"x">>]
Outline2 == [title |-> <<"b", SP, "c">>, description |-> <<"y", NL, "z">>]

\* the files present before the run: the roadmap document of an earlier
\* run, a document without a goal section and a blank document
InitialDisk ==
    [f \in {RoadmapPath, NoGoalPath, BlankPath} |->
        IF f = RoadmapPath
            THEN RoadmapContent(<<"t">>, <<"g">>, <<Outline2, Outline1>>)
        ELSE IF f = NoGoalPath
            THEN <<H1, NL, NL, TOPIC, "t", NL, NL, PLANNED, NL, NL>>
                     \o PostEntries(<<Outline1>>, 1)
        ELSE <<>>]

\* values of the roadmap_file argument
RoadmapFileArgs == {None, EmptyPath, RoadmapPath, NoGoalPath, BlankPath, MissingPath}

\* what the planning crew may return: up to MaxPosts outlines
PlannerOutlines == {Outline1, Outline2}
PlannerOutputs == UNION {[1..n -> PlannerOutlines] : n \in 0..MaxPosts}

\* what the writing crew may return
WriterTitles == {<<"a", SP, "b">>, <<"a", "_", "b">>, <<"a", "/", "b">>}
WriterContents == {<<"c">>, <<"d", NL>>}

\* the exceptions a crew may raise
CrewErrors == {"CrewError1", "CrewError2"}

\* index field of an exception that carries no post index
NoIndex == -1
NoError == [type |-> "none", index |-> NoIndex]
NoOutput == [title |-> <<>>, content |-> <<>>]
NoCall == [entry |-> "none", skip_planning |-> FALSE, roadmap_file |-> None]
NotRaised == [by |-> "none", index |-> NoIndex, type |-> "none"]

LogRecord(level, msg, n) == [level |-> level, msg |-> msg, n |-> n]

\* Python truthiness of the roadmap_file argument
Truthy(rf) == rf # None /\ rf # EmptyPath

\* open(name, "w") + write: the file holds exactly content afterwards
WriteFile(d, name, content) ==
    [f \in DOMAIN d \cup {name} |-> IF f = name THEN content ELSE d[f]]

\* open(name, "w") raises FileNotFoundError when the name has a directory
\* part below output/ : only output/ itself is ever created
OpenFails(name) == \E i \in 2..Len(name) : name[i] = "/"

\* title.replace(' ', '_')
RECURSIVE ReplaceSpaces(_)
ReplaceSpaces(title) ==
    IF title = <<>> THEN <<>>
    ELSE <<IF Head(title) = SP THEN "_" ELSE Head(title)>>
             \o ReplaceSpaces(Tail(title))

\* variant: the sequence number is left out of the name
FileNameNoIndex(index, title) ==
    <<"output/", "Blog_Post_">> \o ReplaceSpaces(title) \o <<".md">>

\* f"output/Blog_Post_{index+1}_{title.replace(' ', '_')}.md"
FileName(index, title) ==
    <<"output/", "Blog_Post_">> \o Digits(index + 1) \o <<"_">>
        \o ReplaceSpaces(title) \o <<".md">>

\* outline.model_dump(): the outline as plain data
model_dump(outline) ==
    [title |-> outline.title, description |-> outline.description]

\* variant: post_index_plus_one is not incremented
WriterInputsZeroBasedTwice(index) ==
    [goal |-> goal,
     topic |-> topic,
     post_title |-> blog_roadmap[index + 1].title,
     post_description |-> blog_roadmap[index + 1].description,
     blog_roadmap |-> [k \in 1..Len(blog_roadmap) |-> model_dump(blog_roadmap[k])],
     post_index |-> index,
     post_index_plus_one |-> index,
     total_posts |-> Len(blog_roadmap)]

\* the inputs of the writing crew for roadmap entry index
WriterInputs(index) ==
    [goal |-> goal,
     topic |-> topic,
     post_title |-> blog_roadmap[index + 1].title,
     post_description |-> blog_roadmap[index + 1].description,
     blog_roadmap |-> [k \in 1..Len(blog_roadmap) |-> model_dump(blog_roadmap[k])],
     post_index |-> index,
     post_index_plus_one |-> index + 1,
     total_posts |-> Len(blog_roadmap)]

\* ------------------------------------------------------------------------
\* Two BlogFlow objects in one process, their steps interleaved.  The lists
\* of a BlogState are objects on the heap and a state holds references to
\* them; the roadmap document on disk is the one file both runs use.
\* ------------------------------------------------------------------------
MaxRunPosts == 2

Runs == {1, 2}

\* owner 0 is the BlogState class, whose field defaults are the two [] lists
ClassLists == {<<0, "blog_posts">>, <<0, "blog_roadmap">>}

ListOf(r, field) == <<r, field>>

ListIds == ClassLists \cup {ListOf(r, f) : r \in Runs, f \in {"blog_posts", "blog_roadmap"}}

RunPlannerOutputs == UNION {[1..n -> PlannerOutlines] : n \in 0..MaxRunPosts}

RunWriterTitle == <<"a">>

\* variant: the instances use the class's default lists themselves
BlogStateSharedDefaults(r) ==
    [topic |-> DefaultTopic,
     goal |-> DefaultGoal,
     blog_roadmap |-> <<0, "blog_roadmap">>,
     blog_posts |-> <<0, "blog_posts">>]

\* BlogState(): pydantic gives every instance its own copy of a field default
BlogStateNew(r) ==
    [topic |-> DefaultTopic,
     goal |-> DefaultGoal,
     blog_roadmap |-> ListOf(r, "blog_roadmap"),
     blog_posts |-> ListOf(r, "blog_posts")]

\* the lists as run r sees them
RunRoadmap(r) == m_heap[m_state[r].blog_roadmap]

RunPosts(r) == m_heap[m_state[r].blog_posts]

NoHistory == [roadmap |-> <<>>, posts |-> <<>>]

TwoInit ==
    /\ m_pc = [r \in Runs |-> "start"]
    /\ m_skip = [r \in Runs |-> FALSE]
    /\ m_state = [r \in Runs |-> BlogStateNew(r)]
    /\ m_heap = [l \in ListIds |-> <<>>]
    /\ m_idx = [r \in Runs |-> 0]
    /\ m_hist = [r \in Runs |-> NoHistory]
    /\ m_disk = InitialDisk[RoadmapPath]

\* BlogFlow(sp, RoadmapPath) for run r: a new BlogState, and with
\* skip_planning the roadmap document as it is on disk now is parsed
RunConstruct(r, sp) ==
    /\ m_pc[r] = "start"
    /\ m_skip' = [m_skip EXCEPT ![r] = sp]
    /\ LET fresh == BlogStateNew(r)
           parsed == parse_roadmap_file(m_disk)
       IN  IF sp
             THEN /\ m_state' = [m_state EXCEPT ![r] =
                          [fresh EXCEPT !.topic = parsed.topic,
                                        !.goal = parsed.goal,
                                        !.blog_roadmap = ListOf(r, "blog_roadmap")]]
                  /\ m_heap' = [m_heap EXCEPT
                          ![ListOf(r, "blog_roadmap")] = parsed.post_outlines]
                  /\ m_hist' = [m_hist EXCEPT ![r].roadmap = parsed.post_outlines]
             ELSE /\ m_state' = [m_state EXCEPT ![r] = fresh]
                  /\ UNCHANGED <<m_heap, m_hist>>
    /\ m_pc' = [m_pc EXCEPT ![r] = "constructed"]
    /\ UNCHANGED <<m_idx, m_disk>>

\* generate_blog_roadmap of run r with skip_planning: the roadmap as loaded
RunSkipPlanning(r) ==
    /\ m_pc[r] = "constructed"
    /\ m_skip[r]
    /\ m_pc' = [m_pc EXCEPT ![r] = "loop"]
    /\ UNCHANGED <<m_skip, m_state, m_heap, m_idx, m_hist, m_disk>>

\* generate_blog_roadmap of run r: the planner returned posts, the state gets
\* the list and the roadmap document is written
RunPlan(r, posts) ==
    /\ m_pc[r] = "constructed"
    /\ ~m_skip[r]
    /\ m_state' = [m_state EXCEPT ![r].blog_roadmap = ListOf(r, "blog_roadmap")]
    /\ m_heap' = [m_heap EXCEPT ![ListOf(r, "blog_roadmap")] = posts]
    /\ m_hist' = [m_hist EXCEPT ![r].roadmap = posts]
    /\ m_disk' = RoadmapContent(m_state[r].topic, m_state[r].goal, posts)
    /\ m_pc' = [m_pc EXCEPT ![r] = "loop"]
    /\ UNCHANGED <<m_skip, m_idx>>

\* one turn of run r's for loop: the writer returned content, the file was
\* written and the post appended to the list the state holds
RunWritePost(r, content) ==
    /\ m_pc[r] = "loop"
    /\ m_idx[r] < Len(RunRoadmap(r))
    /\ LET post == [title |-> RunWriterTitle, content |-> content]
       IN  /\ m_heap' = [m_heap EXCEPT ![m_state[r].blog_posts] = Append(@, post)]
           /\ m_hist' = [m_hist EXCEPT ![r].posts = Append(@, post)]
    /\ m_idx' = [m_idx EXCEPT ![r] = @ + 1]
    /\ UNCHANGED <<m_pc, m_skip, m_state, m_disk>>

\* a crew of run r raised: the run ends
RunCrewRaises(r) ==
    /\ \/ m_pc[r] = "constructed" /\ ~m_skip[r]
       \/ m_pc[r] = "loop" /\ m_idx[r] < Len(RunRoadmap(r))
    /\ m_pc' = [m_pc EXCEPT ![r] = "failed"]
    /\ UNCHANGED <<m_skip, m_state, m_heap, m_idx, m_hist, m_disk>>

\* the loop of run r is over
RunFinish(r) ==
    /\ m_pc[r] = "loop"
    /\ m_idx[r] >= Len(RunRoadmap(r))
    /\ m_pc' = [m_pc EXCEPT ![r] = "done"]
    /\ UNCHANGED <<m_skip, m_state, m_heap, m_idx, m_hist, m_disk>>

TwoNext ==
    \/ \E r \in Runs, sp \in BOOLEAN :
           RunConstruct(r, sp) /\ UNCHANGED <<flow_vars, rt_vars>>
    \/ \E r \in Runs : RunSkipPlanning(r) /\ UNCHANGED <<flow_vars, rt_vars>>
    \/ \E r \in Runs, posts \in RunPlannerOutputs :
           RunPlan(r, posts) /\ UNCHANGED <<flow_vars, rt_vars>>
    \/ \E r \in Runs, content \in WriterContents :
           RunWritePost(r, content) /\ UNCHANGED <<flow_vars, rt_vars>>
    \/ \E r \in Runs : RunCrewRaises(r) /\ UNCHANGED <<flow_vars, rt_vars>>
    \/ \E r \in Runs : RunFinish(r) /\ UNCHANGED <<flow_vars, rt_vars>>

\* ------------------------------------------------------------------------
\* Initial state: module imported (logger set up, output/ created), a fresh
\* BlogState, nothing run yet
\* ------------------------------------------------------------------------
FlowInit ==
    /\ pc = "start"
    /\ call = NoCall
    /\ skip_planning = FALSE
    /\ roadmap_file = None
    /\ topic = DefaultTopic
    /\ goal = DefaultGoal
    /\ blog_roadmap = <<>>
    /\ blog_posts = <<>>
    /\ disk = InitialDisk
    /\ writes = <<>>
    /\ planner_calls = <<>>
    /\ writer_calls = <<>>
    /\ log = <<>>
    /\ idx = 0
    /\ output = NoOutput
    /\ error = NoError
    /\ crew_raised = NotRaised
    /\ writer_returns = <<>>

Init == FlowInit /\ RTIdle /\ TwoInit

\* ------------------------------------------------------------------------
\* BlogFlow.__init__ and kickoff
\* ------------------------------------------------------------------------
\* variant: a supplied roadmap file is loaded whether or not planning is skipped
BlogFlowInitAlwaysLoads(sp, rf, lg) ==
    /\ skip_planning' = sp
    /\ roadmap_file' = rf
    /\ IF Truthy(rf)
         THEN IF rf \in DOMAIN disk
                THEN LET parsed == parse_roadmap_file(disk[rf])
                     IN  /\ topic' = parsed.topic
                         /\ goal' = parsed.goal
                         /\ blog_roadmap' = parsed.post_outlines
                         /\ log' = lg \o <<LogRecord("info", "Loaded roadmap",
                                                     Len(parsed.post_outlines))>>
                         /\ pc' = "constructed"
                         /\ error' = error
                ELSE /\ pc' = "failed"
                     /\ error' = [type |-> "FileNotFoundError", index |-> NoIndex]
                     /\ log' = lg
                     /\ UNCHANGED <<topic, goal, blog_roadmap>>
         ELSE /\ pc' = "constructed"
              /\ log' = lg
              /\ UNCHANGED <<topic, goal, blog_roadmap, error>>
    /\ UNCHANGED <<blog_posts, disk, writes, planner_calls, writer_calls,
                   idx, output, crew_raised, writer_returns>>

\* BlogFlow.__init__(sp, rf) after the records lg have been logged
BlogFlowInit(sp, rf, lg) ==
    /\ skip_planning' = sp
    /\ roadmap_file' = rf
    /\ IF sp /\ Truthy(rf)
         THEN IF rf \in DOMAIN disk
                THEN LET parsed == parse_roadmap_file(disk[rf])
                     IN  /\ topic' = parsed.topic
                         /\ goal' = parsed.goal
                         /\ blog_roadmap' = parsed.post_outlines
                         /\ log' = lg \o <<LogRecord("info", "Loaded roadmap",
                                                     Len(parsed.post_outlines))>>
                         /\ pc' = "constructed"
                         /\ error' = error
                ELSE /\ pc' = "failed"
                     /\ error' = [type |-> "FileNotFoundError", index |-> NoIndex]
                     /\ log' = lg
                     /\ UNCHANGED <<topic, goal, blog_roadmap>>
         ELSE /\ pc' = "constructed"
              /\ log' = lg
              /\ UNCHANGED <<topic, goal, blog_roadmap, error>>
    /\ UNCHANGED <<blog_posts, disk, writes, planner_calls, writer_calls,
                   idx, output, crew_raised, writer_returns>>

\* variant: kickoff without the roadmap_file check
kickoffNoCheck(sp, rf) ==
    /\ pc = "start"
    /\ call' = [entry |-> "kickoff", skip_planning |-> sp, roadmap_file |-> rf]
    /\ BlogFlowInit(sp, rf,
            log \o <<LogRecord("info", "Starting Blog Generation Flow", 0)>>)

\* kickoff(skip_planning, roadmap_file) up to blog_flow.kickoff()
kickoff(sp, rf) ==
    /\ pc = "start"
    /\ call' = [entry |-> "kickoff", skip_planning |-> sp, roadmap_file |-> rf]
    /\ IF sp /\ ~Truthy(rf)
         THEN /\ log' = log \o
                    <<LogRecord("info", "Starting Blog Generation Flow", 0),
                      LogRecord("error", "roadmap_file must be provided", 0)>>
              /\ pc' = "rejected"
              /\ UNCHANGED <<skip_planning, roadmap_file, topic, goal,
                             blog_roadmap, blog_posts, disk, writes,
                             planner_calls, writer_calls, idx, output, error,
                             crew_raised, writer_returns>>
         ELSE BlogFlowInit(sp, rf,
                IF sp
                  THEN log \o <<LogRecord("info", "Starting Blog Generation Flow", 0),
                                LogRecord("info", "Using roadmap file", 0)>>
                  ELSE log \o <<LogRecord("info", "Starting Blog Generation Flow", 0)>>)

\* a caller that constructs BlogFlow(sp, rf) itself and then runs it
BlogFlow(sp, rf) ==
    /\ pc = "start"
    /\ call' = [entry |-> "direct", skip_planning |-> sp, roadmap_file |-> rf]
    /\ BlogFlowInit(sp, rf, log)

\* ------------------------------------------------------------------------
\* generate_blog_roadmap (the flow's start method)
\* ------------------------------------------------------------------------
\* variant: the roadmap step rejects a missing roadmap_file itself
generate_blog_roadmap_checked ==
    /\ pc = "constructed"
    /\ IF skip_planning
         THEN IF Truthy(roadmap_file)
                THEN /\ log' = Append(log, LogRecord("info", "Skipping planning phase", 0))
                     /\ pc' = "planned"
                     /\ UNCHANGED <<planner_calls, error>>
                ELSE /\ error' = [type |-> "ConfigurationError", index |-> NoIndex]
                     /\ pc' = "failed"
                     /\ UNCHANGED <<planner_calls, log>>
         ELSE /\ log' = Append(log, LogRecord("info", "Starting the Blog Planning Crew", 0))
              /\ planner_calls' = Append(planner_calls, [topic |-> topic, goal |-> goal])
              /\ pc' = "planning"
              /\ UNCHANGED error
    /\ UNCHANGED <<call, crew_raised, writer_returns, skip_planning, roadmap_file,
                   topic, goal, blog_roadmap,
                   blog_posts, disk, writes, writer_calls, idx, output>>

\* up to the planning crew's kickoff, or the whole method when planning
\* is skipped
generate_blog_roadmap ==
    /\ pc = "constructed"
    /\ IF skip_planning
         THEN /\ log' = Append(log, LogRecord("info", "Skipping planning phase", 0))
              /\ pc' = "planned"
              /\ UNCHANGED planner_calls
         ELSE /\ log' = Append(log, LogRecord("info", "Starting the Blog Planning Crew", 0))
              /\ planner_calls' = Append(planner_calls, [topic |-> topic, goal |-> goal])
              /\ pc' = "planning"
    /\ UNCHANGED <<call, crew_raised, writer_returns, skip_planning, roadmap_file,
                   topic, goal, blog_roadmap,
                   blog_posts, disk, writes, writer_calls, idx, output, error>>

\* variant: the roadmap document is not written
planner_return_unsaved(posts) ==
    /\ pc = "planning"
    /\ blog_roadmap' = posts
    /\ log' = log \o <<LogRecord("info", "Blog Posts Roadmap", Len(posts))>>
    /\ pc' = "planned"
    /\ UNCHANGED <<call, crew_raised, writer_returns, skip_planning, roadmap_file,
                   topic, goal, blog_posts, disk, writes,
                   planner_calls, writer_calls, idx, output, error>>

\* the planning crew returned posts: the rest of the method
planner_return(posts) ==
    /\ pc = "planning"
    /\ blog_roadmap' = posts
    /\ LET roadmap_content == RoadmapContent(topic, goal, posts)
       IN  /\ disk' = WriteFile(disk, RoadmapPath, roadmap_content)
           /\ writes' = Append(writes, [name |-> RoadmapPath,
                                        content |-> roadmap_content])
    /\ log' = log \o <<LogRecord("info", "Blog Posts Roadmap", Len(posts)),
                       LogRecord("info", "Roadmap saved", 0)>>
    /\ pc' = "planned"
    /\ UNCHANGED <<call, crew_raised, writer_returns, skip_planning, roadmap_file,
                   topic, goal, blog_posts,
                   planner_calls, writer_calls, idx, output, error>>

\* variant: the planner's exception is caught and the flow goes on
planner_raise_swallowed(e) ==
    /\ pc = "planning"
    /\ crew_raised' = [by |-> "planner", index |-> NoIndex, type |-> e]
    /\ pc' = "planned"
    /\ UNCHANGED <<call, writer_returns, skip_planning, roadmap_file,
                   topic, goal, blog_roadmap,
                   blog_posts, disk, writes, planner_calls, writer_calls, log,
                   idx, output, error>>

\* the planning crew raised e: the exception leaves the method and the run
planner_raise(e) ==
    /\ pc = "planning"
    /\ error' = [type |-> e, index |-> NoIndex]
    /\ crew_raised' = [by |-> "planner", index |-> NoIndex, type |-> e]
    /\ pc' = "failed"
    /\ UNCHANGED <<call, writer_returns, skip_planning, roadmap_file,
                   topic, goal, blog_roadmap,
                   blog_posts, disk, writes, planner_calls, writer_calls, log,
                   idx, output>>

\* ------------------------------------------------------------------------
\* write_blog_posts (listens to generate_blog_roadmap)
\* ------------------------------------------------------------------------
\* variant: phase 2 refuses an empty roadmap
write_blog_posts_checked ==
    /\ pc = "planned"
    /\ IF blog_roadmap = <<>>
         THEN /\ error' = [type |-> "ConfigurationError", index |-> NoIndex]
              /\ pc' = "failed"
              /\ UNCHANGED <<log, idx>>
         ELSE /\ log' = Append(log, LogRecord("info", "Writing Blog Posts", 0))
              /\ idx' = 0
              /\ pc' = "loop"
              /\ UNCHANGED error
    /\ UNCHANGED <<call, crew_raised, writer_returns, skip_planning, roadmap_file,
                   topic, goal, blog_roadmap,
                   blog_posts, disk, writes, planner_calls, writer_calls,
                   output>>

write_blog_posts ==
    /\ pc = "planned"
    /\ log' = Append(log, LogRecord("info", "Writing Blog Posts", 0))
    /\ idx' = 0
    /\ pc' = "loop"
    /\ UNCHANGED <<call, crew_raised, writer_returns, skip_planning, roadmap_file,
                   topic, goal, blog_roadmap,
                   blog_posts, disk, writes, planner_calls, writer_calls,
                   output, error>>

\* variant: the loop ends after the first post
loop_next_stops_early ==
    /\ pc = "loop"
    /\ IF idx < Len(blog_roadmap) /\ idx < 1
         THEN /\ log' = Append(log, LogRecord("info", "Writing Blog Post", idx + 1))
              /\ writer_calls' = Append(writer_calls, WriterInputs(idx))
              /\ pc' = "writing"
         ELSE /\ log' = log \o
                    <<LogRecord("info", "Completed writing", Len(blog_posts))>> \o
                    (IF call.entry = "kickoff"
                       THEN <<LogRecord("info", "Blog Generation Flow completed", 0)>>
                       ELSE <<>>)
              /\ pc' = "done"
              /\ UNCHANGED writer_calls
    /\ UNCHANGED <<call, crew_raised, writer_returns, skip_planning, roadmap_file,
                   topic, goal, blog_roadmap,
                   blog_posts, disk, writes, planner_calls, idx, output, error>>

\* variant: the loop starts the writer calls for two outlines at once
loop_next_fan_out ==
    /\ pc = "loop"
    /\ IF idx < Len(blog_roadmap)
         THEN /\ log' = Append(log, LogRecord("info", "Writing Blog Post", idx + 1))
              /\ writer_calls' = writer_calls \o <<WriterInputs(idx)>> \o
                     (IF idx + 1 < Len(blog_roadmap)
                        THEN <<WriterInputs(idx + 1)>> ELSE <<>>)
              /\ pc' = "writing"
         ELSE /\ log' = log \o
                    <<LogRecord("info", "Completed writing", Len(blog_posts))>> \o
                    (IF call.entry = "kickoff"
                       THEN <<LogRecord("info", "Blog Generation Flow completed", 0)>>
                       ELSE <<>>)
              /\ pc' = "done"
              /\ UNCHANGED writer_calls
    /\ UNCHANGED <<call, crew_raised, writer_returns, skip_planning, roadmap_file,
                   topic, goal, blog_roadmap,
                   blog_posts, disk, writes, planner_calls, idx, output, error>>

\* top of the for loop: the next write_single_post up to the writing crew's
\* kickoff, or the end of the method and of kickoff
loop_next ==
    /\ pc = "loop"
    /\ IF idx < Len(blog_roadmap)
         THEN /\ log' = Append(log, LogRecord("info", "Writing Blog Post", idx + 1))
              /\ writer_calls' = Append(writer_calls, WriterInputs(idx))
              /\ pc' = "writing"
         ELSE /\ log' = log \o
                    <<LogRecord("info", "Completed writing", Len(blog_posts))>> \o
                    (IF call.entry = "kickoff"
                       THEN <<LogRecord("info", "Blog Generation Flow completed", 0)>>
                       ELSE <<>>)
              /\ pc' = "done"
              /\ UNCHANGED writer_calls
    /\ UNCHANGED <<call, crew_raised, writer_returns, skip_planning, roadmap_file,
                   topic, goal, blog_roadmap,
                   blog_posts, disk, writes, planner_calls, idx, output, error>>

\* the writing crew returned title and content
writer_return(title, content) ==
    /\ pc = "writing"
    /\ output' = [title |-> title, content |-> content]
    /\ writer_returns' = Append(writer_returns,
            [post_index |-> idx, title |-> title, content |-> content])
    /\ pc' = "saving"
    /\ UNCHANGED <<call, crew_raised, skip_planning, roadmap_file,
                   topic, goal, blog_roadmap,
                   blog_posts, disk, writes, planner_calls, writer_calls, log,
                   idx, error>>

\* variant: the writer's exception is wrapped with the post index
writer_raise_indexed(e) ==
    /\ pc = "writing"
    /\ error' = [type |-> "WritingFailure", index |-> idx]
    /\ crew_raised' = [by |-> "writer", index |-> idx, type |-> e]
    /\ pc' = "failed"
    /\ UNCHANGED <<call, writer_returns, skip_planning, roadmap_file,
                   topic, goal, blog_roadmap,
                   blog_posts, disk, writes, planner_calls, writer_calls, log,
                   idx, output>>

\* variant: the writer's exception is caught and the loop goes on
writer_raise_and_continue(e) ==
    /\ pc = "writing"
    /\ idx' = idx + 1
    /\ crew_raised' = [by |-> "writer", index |-> idx, type |-> e]
    /\ pc' = "loop"
    /\ UNCHANGED <<call, writer_returns, skip_planning, roadmap_file,
                   topic, goal, blog_roadmap,
                   blog_posts, disk, writes, planner_calls, writer_calls, log,
                   output, error>>

\* the writing crew raised e: nothing in write_single_post, the loop,
\* write_blog_posts or kickoff catches it, so the exception leaves the run as
\* it was raised (the Flow base class is taken to pass a method's exception on)
writer_raise(e) ==
    /\ pc = "writing"
    /\ error' = [type |-> e, index |-> NoIndex]
    /\ crew_raised' = [by |-> "writer", index |-> idx, type |-> e]
    /\ pc' = "failed"
    /\ UNCHANGED <<call, writer_returns, skip_planning, roadmap_file,
                   topic, goal, blog_roadmap,
                   blog_posts, disk, writes, planner_calls, writer_calls, log,
                   idx, output>>

\* variant: a post whose file could not be opened is recorded all the same
save_post_unchecked ==
    /\ pc = "saving"
    /\ LET filename == FileName(idx, output.title)
       IN  IF OpenFails(filename)
             THEN /\ pc' = "saved"
                  /\ UNCHANGED <<disk, writes, log, error>>
             ELSE /\ disk' = WriteFile(disk, filename, output.content)
                  /\ writes' = Append(writes, [name |-> filename,
                                               content |-> output.content])
                  /\ log' = Append(log, LogRecord("info", "Blog post saved", idx + 1))
                  /\ pc' = "saved"
                  /\ UNCHANGED error
    /\ UNCHANGED <<call, crew_raised, writer_returns, skip_planning, roadmap_file,
                   topic, goal, blog_roadmap,
                   blog_posts, planner_calls, writer_calls, idx, output>>

\* the post file is opened and written
save_post ==
    /\ pc = "saving"
    /\ LET filename == FileName(idx, output.title)
       IN  IF OpenFails(filename)
             THEN /\ error' = [type |-> "FileNotFoundError", index |-> NoIndex]
                  /\ pc' = "failed"
                  /\ UNCHANGED <<disk, writes, log>>
             ELSE /\ disk' = WriteFile(disk, filename, output.content)
                  /\ writes' = Append(writes, [name |-> filename,
                                               content |-> output.content])
                  /\ log' = Append(log, LogRecord("info", "Blog post saved", idx + 1))
                  /\ pc' = "saved"
                  /\ UNCHANGED error
    /\ UNCHANGED <<call, crew_raised, writer_returns, skip_planning, roadmap_file,
                   topic, goal, blog_roadmap,
                   blog_posts, planner_calls, writer_calls, idx, output>>

\* variant: the new post is put in front of the list
append_post_in_front ==
    /\ pc = "saved"
    /\ blog_posts' = <<[title |-> output.title, content |-> output.content]>>
                         \o blog_posts
    /\ idx' = idx + 1
    /\ pc' = "loop"
    /\ UNCHANGED <<call, crew_raised, writer_returns, skip_planning, roadmap_file,
                   topic, goal, blog_roadmap,
                   disk, writes, planner_calls, writer_calls, log, output, error>>

\* write_single_post returns the post and the loop appends it
append_post ==
    /\ pc = "saved"
    /\ blog_posts' = Append(blog_posts, [title |-> output.title,
                                         content |-> output.content])
    /\ idx' = idx + 1
    /\ pc' = "loop"
    /\ UNCHANGED <<call, crew_raised, writer_returns, skip_planning, roadmap_file,
                   topic, goal, blog_roadmap,
                   disk, writes, planner_calls, writer_calls, log, output, error>>

\* ------------------------------------------------------------------------
\* Specifications
\* ------------------------------------------------------------------------
FlowNext ==
    \/ \E sp \in BOOLEAN, rf \in RoadmapFileArgs : kickoff(sp, rf)
    \/ \E sp \in BOOLEAN, rf \in RoadmapFileArgs : BlogFlow(sp, rf)
    \/ generate_blog_roadmap
    \/ \E posts \in PlannerOutputs : planner_return(posts)
    \/ \E e \in CrewErrors : planner_raise(e)
    \/ write_blog_posts
    \/ loop_next
    \/ \E title \in WriterTitles, content \in WriterContents :
           writer_return(title, content)
    \/ \E e \in CrewErrors : writer_raise(e)
    \/ save_post
    \/ append_post

Next == FlowNext /\ UNCHANGED <<rt_vars, two_vars>>

Spec == Init /\ [][Next]_vars

\* the round trip of the roadmap document on its own
InitRT == FlowInit /\ RTInit /\ TwoInit

SpecRT == InitRT /\ [][RTNext]_vars

\* parsing documents that lack sections
InitDoc == FlowInit /\ DocInit /\ TwoInit

SpecDoc == InitDoc /\ [][DocNext]_vars

\* two interleaved runs
InitTwo == FlowInit /\ RTIdle /\ TwoInit

SpecTwo == InitTwo /\ [][TwoNext]_vars

\* ------------------------------------------------------------------------
\* Properties
\* ------------------------------------------------------------------------
\* the post files written by the run, in order
PostWrites == SelectSeq(writes, LAMBDA w : w.name # RoadmapPath)

\* the name a post with title t at zero-based roadmap index k must get
ExpectedName(k, t) ==
    <<"output/", "Blog_Post_">> \o Digits(k + 1) \o <<"_">>
        \o [j \in 1..Len(t) |-> IF t[j] = SP THEN "_" ELSE t[j]] \o <<".md">>

Phase2Entered == \E r \in 1..Len(log) : log[r].msg = "Writing Blog Posts"

RunEnded == pc \in {"done", "failed", "rejected"}

\* C1: when every writer call of the run succeeded, write_blog_posts ends
\* with one post per roadmap entry, in roadmap order, and has written one
\* post file per entry, numbered 1..N.
C1_SequentialCompleteness ==
    (Phase2Entered /\ RunEnded /\ crew_raised.by # "writer") =>
        /\ Len(blog_posts) = Len(blog_roadmap)
        /\ Len(writer_returns) = Len(blog_roadmap)
        /\ Len(PostWrites) = Len(blog_roadmap)
        /\ \A k \in 1..Len(blog_roadmap) :
              /\ writer_returns[k].post_index = k - 1
              /\ blog_posts[k] = [title |-> writer_returns[k].title,
                                  content |-> writer_returns[k].content]
              /\ PostWrites[k].name = ExpectedName(k - 1, blog_posts[k].title)

\* C2: once the writer call for index i has failed, the run has stopped:
\* i posts are recorded, i post files numbered 1..i were written and still
\* hold what was written, and the writer was called exactly once for each of
\* the indices 0..i and for no other index.
C2_FailStop ==
    crew_raised.by = "writer" =>
        LET i == crew_raised.index
        IN  /\ pc = "failed"
            /\ Len(blog_posts) = i
            /\ Len(PostWrites) = i
            /\ \A k \in 1..i :
                  /\ PostWrites[k].name = ExpectedName(k - 1, blog_posts[k].title)
                  /\ PostWrites[k].content = blog_posts[k].content
                  /\ PostWrites[k].name \in DOMAIN disk
                  /\ disk[PostWrites[k].name] = blog_posts[k].content
            /\ Len(writer_calls) = i + 1
            /\ \A k \in 1..Len(writer_calls) : writer_calls[k].post_index = k - 1

\* a writer call failed after at least one post had been written
C2_Witness ==
    /\ crew_raised.by = "writer"
    /\ crew_raised.index >= 1
    /\ crew_raised.index < Len(blog_roadmap) - 1
    /\ pc = "failed"

\* C3 as stated: a failed writer call for index i leaves the run with a
\* WritingFailure that carries the index i.
C3_ReportsWritingFailure ==
    crew_raised.by = "writer" =>
        /\ pc = "failed"
        /\ error = [type |-> "WritingFailure", index |-> crew_raised.index]

\* C3 amended: a failed writer call for index i ends the run in failure, never
\* in a normal completion; the exception that leaves the run is the crew's own
\* exception, unchanged and without an index; the index shows only in the last
\* log record, "Writing Blog Post i+1", written before the call.
C3_OpaqueFailure ==
    crew_raised.by = "writer" =>
        /\ pc = "failed"
        /\ error = [type |-> crew_raised.type, index |-> NoIndex]
        /\ log # <<>>
        /\ log[Len(log)] = LogRecord("info", "Writing Blog Post", crew_raised.index + 1)
        /\ \A r \in 1..Len(log) :
              log[r].msg \notin {"Completed writing", "Blog Generation Flow completed"}

\* the second writer call of a run started by kickoff failed
C3_Witness ==
    /\ crew_raised.by = "writer"
    /\ crew_raised.index = 1
    /\ call.entry = "kickoff"
    /\ error.type \in CrewErrors

\* text that contains a literal of the document format
HasMarker(s) == \E j \in 1..Len(s) : s[j] \in {H1, TOPIC, GOAL, PLANNED, H3}

HasNewline(s) == \E j \in 1..Len(s) : s[j] = NL

\* C4 as stated: with non-empty titles and descriptions and no marker text in
\* the descriptions, parsing the written document returns topic, goal and
\* outlines unchanged.
C4_RoundTrip ==
    (/\ rt_pc = "parsed"
     /\ \A k \in 1..Len(rt_posts) :
           /\ rt_posts[k].title # <<>>
           /\ rt_posts[k].description # <<>>
           /\ ~HasMarker(rt_posts[k].description)) =>
        rt_parsed = [topic |-> rt_topic, goal |-> rt_goal, post_outlines |-> rt_posts]

\* C4 amended: for a single-line topic, single-line non-empty titles,
\* non-empty descriptions and no marker text in any field, parsing the written
\* document returns the topic, the goal and every title and description with
\* leading and trailing whitespace removed, the same number of outlines in the
\* same order: the triple is unchanged exactly when no field starts or ends
\* with whitespace.
C4_RoundTripTrimmed ==
    (/\ rt_pc = "parsed"
     /\ ~HasNewline(rt_topic)
     /\ ~HasMarker(rt_topic)
     /\ ~HasMarker(rt_goal)
     /\ \A k \in 1..Len(rt_posts) :
           /\ rt_posts[k].title # <<>>
           /\ ~HasNewline(rt_posts[k].title)
           /\ ~HasMarker(rt_posts[k].title)
           /\ rt_posts[k].description # <<>>
           /\ ~HasMarker(rt_posts[k].description)) =>
        /\ rt_parsed.topic = Strip(rt_topic)
        /\ rt_parsed.goal = Strip(rt_goal)
        /\ Len(rt_parsed.post_outlines) = Len(rt_posts)
        /\ \A k \in 1..Len(rt_posts) :
              /\ rt_parsed.post_outlines[k].title = Strip(rt_posts[k].title)
              /\ rt_parsed.post_outlines[k].description
                     = Strip(rt_posts[k].description)
        /\ (/\ Strip(rt_topic) = rt_topic
            /\ Strip(rt_goal) = rt_goal
            /\ \A k \in 1..Len(rt_posts) :
                  /\ Strip(rt_posts[k].title) = rt_posts[k].title
                  /\ Strip(rt_posts[k].description) = rt_posts[k].description)
           <=> rt_parsed = [topic |-> rt_topic, goal |-> rt_goal,
                            post_outlines |-> rt_posts]

\* a document with two outlines and a goal wrapped in whitespace, like the
\* default goal, was written and parsed: the goal came back trimmed
C4_Witness ==
    /\ rt_pc = "parsed"
    /\ rt_topic = <<"a", SP, "b">>
    /\ rt_goal = <<NL, SP, "a", NL, SP>>
    /\ Len(rt_posts) = 2
    /\ rt_posts[1].description = <<"a", NL, NL, "b">>
    /\ rt_posts[2].title = <<"b", SP>>
    /\ rt_parsed.goal = <<"a">>
    /\ Len(rt_parsed.post_outlines) = 2

C6_FlowEnforcesSource ==
    (pc # "start" /\ skip_planning /\ ~Truthy(roadmap_file)) =>
        /\ pc \in {"constructed", "failed"}
        /\ pc = "failed" => error.type = "ConfigurationError"

\* C6 amended: only kickoff enforces the requirement.  A BlogFlow with
\* skip_planning true and no roadmap_file exists only when constructed
\* directly; it does not fail: generate_blog_roadmap returns the default empty
\* roadmap, write_blog_posts runs over zero outlines and the run completes
\* normally with the default topic and goal, no crew call, no file written
\* and zero posts.
C6_OnlyKickoffEnforces ==
    (pc # "start" /\ skip_planning /\ ~Truthy(roadmap_file)) =>
        /\ call.entry = "direct"
        /\ pc \in {"constructed", "planned", "loop", "done"}
        /\ error = NoError
        /\ topic = DefaultTopic
        /\ goal = DefaultGoal
        /\ blog_roadmap = <<>>
        /\ blog_posts = <<>>
        /\ planner_calls = <<>>
        /\ writer_calls = <<>>
        /\ writes = <<>>

\* BlogFlow(True, None) has completed normally
C6_Witness ==
    /\ skip_planning
    /\ roadmap_file = None
    /\ call.entry = "direct"
    /\ pc = "done"

\* C7: on the planning path, from the return of generate_blog_roadmap on (so
\* whenever a writer call has started or a post file exists), the first file
\* the run wrote is the roadmap document with the topic, goal and outlines of
\* the state, and the document on disk still holds it.
C7_RoadmapPersistedFirst ==
    (/\ pc # "start"
     /\ ~skip_planning
     /\ \/ pc \in {"planned", "loop", "writing", "saving", "saved", "done"}
        \/ writer_calls # <<>>
        \/ PostWrites # <<>>) =>
        /\ writes # <<>>
        /\ writes[1] = [name |-> RoadmapPath,
                        content |-> RoadmapContent(topic, goal, blog_roadmap)]
        /\ RoadmapPath \in DOMAIN disk
        /\ disk[RoadmapPath] = RoadmapContent(topic, goal, blog_roadmap)

\* the first writer call of a planned run is in flight
C7_Witness ==
    /\ ~skip_planning
    /\ pc = "writing"
    /\ idx = 0
    /\ Len(writer_calls) = 1
    /\ planner_calls # <<>>

C9_WriterInputs ==
    /\ Len(writer_calls) <= Len(blog_roadmap)
    /\ \A k \in 1..Len(writer_calls) :
          writer_calls[k] =
              [goal |-> goal,
               topic |-> topic,
               post_title |-> blog_roadmap[k].title,
               post_description |-> blog_roadmap[k].description,
               blog_roadmap |-> [j \in 1..Len(blog_roadmap) |->
                                    [title |-> blog_roadmap[j].title,
                                     description |-> blog_roadmap[j].description]],
               post_index |-> k - 1,
               post_index_plus_one |-> k,
               total_posts |-> Len(blog_roadmap)]
    /\ \A j, k \in 1..Len(writer_calls) :
          /\ writer_calls[j].blog_roadmap = writer_calls[k].blog_roadmap
          /\ writer_calls[j].topic = writer_calls[k].topic
          /\ writer_calls[j].goal = writer_calls[k].goal

\* the writer was called for every entry of a roadmap of two or more outlines
C9_Witness ==
    /\ Len(blog_roadmap) >= 2
    /\ Len(writer_calls) = Len(blog_roadmap)
    /\ blog_roadmap[1] # blog_roadmap[2]
    /\ pc = "done"

\* C10: once the planning call has failed the run has ended in failure: no
\* writer call, no roadmap document, no post file, no post.
C10_PlanningFailure ==
    crew_raised.by = "planner" =>
        /\ pc = "failed"
        /\ error = [type |-> crew_raised.type, index |-> NoIndex]
        /\ ~Phase2Entered
        /\ writer_calls = <<>>
        /\ writes = <<>>
        /\ disk = InitialDisk
        /\ blog_posts = <<>>

\* the planning call of a run failed
C10_Witness ==
    /\ crew_raised.by = "planner"
    /\ planner_calls # <<>>
    /\ pc = "failed"

\* the roadmap step has returned
RoadmapStepDone == pc \in {"planned", "loop", "writing", "saving", "saved", "done"}

\* C11 as stated: a run never completes normally with an empty roadmap or an
\* empty topic.
C11_NeverDoneEmpty ==
    pc = "done" => (blog_roadmap # <<>> /\ topic # <<>>)

\* C11 amended: nothing checks the roadmap for emptiness.  When the planner
\* returns no outlines, or the parser yields no outlines from the roadmap file,
\* the run enters phase 2, makes no writer call, writes no post file and
\* completes normally with zero posts; on the planning path the roadmap
\* document with no entries has been written first.  A run with an empty
\* roadmap fails only when the planner raised or the roadmap file could not
\* be opened.
C11_EmptyRoadmapCompletes ==
    /\ (pc = "failed" /\ blog_roadmap = <<>>) =>
           \/ crew_raised # NotRaised
           \/ error = [type |-> "FileNotFoundError", index |-> NoIndex]
    /\ (RoadmapStepDone /\ blog_roadmap = <<>>) =>
        /\ pc \in {"planned", "loop", "done"}
        /\ error = NoError
        /\ writer_calls = <<>>
        /\ blog_posts = <<>>
        /\ PostWrites = <<>>
        /\ ~skip_planning =>
              writes = <<[name |-> RoadmapPath,
                          content |-> RoadmapContent(topic, goal, <<>>)]>>
        /\ skip_planning => writes = <<>>
        /\ pc = "done" =>
              \E r \in 1..Len(log) : log[r] = LogRecord("info", "Completed writing", 0)

\* kickoff with the blank roadmap file has completed: empty topic, no outlines
C11_Witness ==
    /\ pc = "done"
    /\ call.entry = "kickoff"
    /\ roadmap_file = BlankPath
    /\ topic = <<>>
    /\ blog_roadmap = <<>>

\* the token m occurs in the text s
Occurs(m, s) == \E j \in 1..Len(s) : s[j] = m

\* C12: parse_roadmap_file returns a result for every document.  Without a
\* topic marker the topic is empty; without a goal section the goal is empty
\* and the numbered entries are still returned as outlines, in document order;
\* without numbered entries the outline list is empty.
C12_ParserTolerance ==
    rt_pc = "parsed" =>
        /\ DOMAIN rt_parsed = {"topic", "goal", "post_outlines"}
        /\ ~Occurs(TOPIC, rt_doc) => rt_parsed.topic = <<>>
        /\ ~Occurs(GOAL, rt_doc) => rt_parsed.goal = <<>>
        /\ ~Occurs(H3, rt_doc) => rt_parsed.post_outlines = <<>>
        /\ (\A k \in 1..Len(rt_posts) :
               ~HasMarker(rt_posts[k].title) /\ ~HasMarker(rt_posts[k].description)) =>
              /\ Len(rt_parsed.post_outlines) = Len(rt_posts)
              /\ \A k \in 1..Len(rt_posts) :
                    /\ rt_parsed.post_outlines[k].title = Strip(rt_posts[k].title)
                    /\ rt_parsed.post_outlines[k].description
                           = Strip(rt_posts[k].description)

\* a document with a topic, no goal section and two entries was parsed
C12_Witness ==
    /\ rt_pc = "parsed"
    /\ rt_absent = {"goal"}
    /\ ~Occurs(GOAL, rt_doc)
    /\ rt_parsed.goal = <<>>
    /\ rt_parsed.topic # <<>>
    /\ Len(rt_posts) = 2
    /\ rt_posts[1] # rt_posts[2]
    /\ Len(rt_parsed.post_outlines) = 2

\* blog_posts[i] is the post the writer returned to the call made for roadmap[i]
PostsFollowRoadmap ==
    /\ Len(blog_posts) <= Len(blog_roadmap)
    /\ Len(blog_posts) <= Len(writer_returns)
    /\ Len(writer_returns) <= Len(writer_calls)
    /\ \A i \in 1..Len(blog_posts) :
          /\ writer_calls[i].post_index = i - 1
          /\ writer_calls[i].post_title = blog_roadmap[i].title
          /\ writer_calls[i].post_description = blog_roadmap[i].description
          /\ writer_returns[i].post_index = i - 1
          /\ blog_posts[i] = [title |-> writer_returns[i].title,
                              content |-> writer_returns[i].content]

\* a step leaves blog_posts alone or adds one post at its end
PostsAppendOnly ==
    \/ blog_posts' = blog_posts
    \/ /\ Len(blog_posts') = Len(blog_posts) + 1
       /\ SubSeq(blog_posts', 1, Len(blog_posts)) = blog_posts

\* C13: in every state there are at most as many posts as roadmap outlines,
\* blog_posts[i] is the post returned by the writer call made for roadmap[i],
\* and no step inserts, reorders, replaces or removes a post: a step only
\* appends.
C13_PostsInRoadmapOrder == [](PostsFollowRoadmap) /\ [][PostsAppendOnly]_vars

\* phase 2 has recorded two different posts and the third call is being made
C13_Witness ==
    /\ pc = "writing"
    /\ Len(blog_roadmap) = 3
    /\ Len(blog_posts) = 2
    /\ blog_posts[1] # blog_posts[2]
    /\ blog_roadmap[1] # blog_roadmap[2]

\* planner calls that have returned
PlannerReturned ==
    Len(SelectSeq(log, LAMBDA r : r.msg = "Blog Posts Roadmap"))

\* crew calls made and neither returned nor ended by an exception
PlannerInFlight ==
    Len(planner_calls) - PlannerReturned
        - (IF crew_raised.by = "planner" THEN 1 ELSE 0)

WritersInFlight ==
    Len(writer_calls) - Len(writer_returns)
        - (IF crew_raised.by = "writer" THEN 1 ELSE 0)

\* at most one crew call is open, no writer call was made while the planner
\* call was open, and the writer calls made so far are for 0, 1, 2, ...
OneCrewCall ==
    /\ PlannerInFlight \in {0, 1}
    /\ WritersInFlight \in {0, 1}
    /\ PlannerInFlight + WritersInFlight <= 1
    /\ writer_calls # <<>> => PlannerInFlight = 0
    /\ \A k \in 1..Len(writer_calls) : writer_calls[k].post_index = k - 1

\* a step that starts a writer call starts one, for the index after the last
\* call, when every earlier call has returned, its file has been written and
\* its post has been appended
WriterCallStarts ==
    writer_calls' # writer_calls =>
        /\ Len(writer_calls') = Len(writer_calls) + 1
        /\ writer_calls'[Len(writer_calls')].post_index = Len(writer_calls)
        /\ Len(writer_returns) = Len(writer_calls)
        /\ Len(PostWrites) = Len(writer_calls)
        /\ Len(blog_posts) = Len(writer_calls)
        /\ crew_raised = NotRaised

\* C14: within a run at most one crew call is in flight: the planning call has
\* completed before any writer call starts, the writer call for index i+1
\* starts only after the call for i has returned, its file has been written
\* and its post has been appended, and the writer calls are issued in the
\* order 0, 1, ..., N-1.
C14_OneCallInFlight == [](OneCrewCall) /\ [][WriterCallStarts]_vars

\* after a planner call that returned, the third writer call is in flight
C14_Witness ==
    /\ pc = "writing"
    /\ Len(planner_calls) = 1
    /\ PlannerReturned = 1
    /\ Len(writer_calls) = 3
    /\ WritersInFlight = 1

\* the state of the run's state machine at program position p
Phase(p) ==
    CASE p \in {"start", "constructed"} -> "INIT"
      [] p = "planning" -> "PLANNING"
      [] p = "planned" -> "PLANNED"
      [] p \in {"loop", "writing", "saving", "saved"} -> "WRITING"
      [] p = "done" -> "DONE"
      [] p = "failed" -> "FAILED"
      [] p = "rejected" -> "REJECTED"

\* the transitions of the state machine as stated; kickoff's refusal of an
\* invocation ends the run before it starts and is left out of FAILED
StatedTransitions ==
    {<<"INIT", "PLANNING">>, <<"INIT", "PLANNED">>, <<"INIT", "REJECTED">>,
     <<"PLANNING", "PLANNED">>, <<"PLANNING", "FAILED">>,
     <<"PLANNED", "WRITING">>,
     <<"WRITING", "DONE">>, <<"WRITING", "FAILED">>}

\* the writer calls are made for WRITING(0), WRITING(1), ... in turn
WritingInTurn ==
    (Phase(pc') = "WRITING" /\ idx' # idx) =>
        IF Phase(pc) = "PLANNED" THEN idx' = 0 ELSE idx' = idx + 1

\* PLANNED is entered from INIT only when planning is skipped
PlannedBySkip ==
    (Phase(pc) = "INIT" /\ Phase(pc') = "PLANNED") => skip_planning

\* DONE is entered only after all N posts are written
DoneAfterAll ==
    (Phase(pc) # "DONE" /\ Phase(pc') = "DONE") =>
        /\ idx = Len(blog_roadmap)
        /\ Len(blog_posts) = Len(blog_roadmap)
        /\ Len(PostWrites) = Len(blog_roadmap)

\* once failed, nothing of the run changes
FailedAbsorbing == Phase(pc) = "FAILED" => UNCHANGED flow_vars

\* C15 as stated: the run moves INIT -> PLANNING -> PLANNED -> WRITING(0) ->
\* ... -> WRITING(N-1) -> DONE, PLANNED is entered from PLANNING or by the
\* skip-planning path, DONE only after all N posts are written, FAILED only
\* from PLANNING or WRITING(i), and FAILED is absorbing.
C15_StateMachine ==
    [][/\ Phase(pc') # Phase(pc) => <<Phase(pc), Phase(pc')>> \in StatedTransitions
       /\ WritingInTurn
       /\ PlannedBySkip
       /\ DoneAfterAll
       /\ FailedAbsorbing]_vars

\* C15 amended: as stated, and FAILED is also entered from INIT: with
\* skip_planning true and a roadmap_file that cannot be opened, the
\* constructor's open raises FileNotFoundError before any crew call or write.
C15_StateMachineInitFailure ==
    [][/\ Phase(pc') # Phase(pc) =>
             \/ <<Phase(pc), Phase(pc')>> \in StatedTransitions
             \/ /\ Phase(pc) = "INIT"
                /\ Phase(pc') = "FAILED"
                /\ skip_planning'
                /\ Truthy(roadmap_file')
                /\ roadmap_file' \notin DOMAIN disk
                /\ error' = [type |-> "FileNotFoundError", index |-> NoIndex]
                /\ planner_calls' = <<>> /\ writer_calls' = <<>> /\ writes' = <<>>
       /\ WritingInTurn
       /\ PlannedBySkip
       /\ DoneAfterAll
       /\ FailedAbsorbing]_vars

\* a run that failed in the constructor: the roadmap file is not there
C15_Witness ==
    /\ pc = "failed"
    /\ skip_planning
    /\ roadmap_file = MissingPath
    /\ error = [type |-> "FileNotFoundError", index |-> NoIndex]
    /\ planner_calls = <<>>
    /\ writer_calls = <<>>

\* writes of the roadmap document
RoadmapWrites == SelectSeq(writes, LAMBDA w : w.name = RoadmapPath)

\* the flow object exists
Constructed == pc \notin {"start", "rejected"}

\* a record of the constructor having loaded a roadmap file
LoadedLogged == \E r \in 1..Len(log) : log[r].msg = "Loaded roadmap"

\* C16: the planner is called and output/Blog_Series_Roadmap.md is written
\* exactly when skip_planning is false.  With skip_planning true and a
\* roadmap_file given, topic, goal and roadmap are what parse_roadmap_file
\* returns for that file, the planner is never called and no file that was on
\* disk is written or changed.  With skip_planning false the roadmap_file is
\* not opened (a missing one raises nothing) and topic, goal and the planner's
\* inputs are the defaults, the roadmap empty until the planner returns.
C16_PlanningIffNotSkipped ==
    Constructed =>
        /\ planner_calls # <<>> => ~skip_planning
        /\ RoadmapWrites # <<>> => ~skip_planning
        /\ (RoadmapStepDone /\ ~skip_planning) =>
               Len(planner_calls) = 1 /\ Len(RoadmapWrites) = 1
        /\ (skip_planning /\ Truthy(roadmap_file)
                /\ roadmap_file \in DOMAIN InitialDisk) =>
               /\ topic = parse_roadmap_file(InitialDisk[roadmap_file]).topic
               /\ goal = parse_roadmap_file(InitialDisk[roadmap_file]).goal
               /\ blog_roadmap
                      = parse_roadmap_file(InitialDisk[roadmap_file]).post_outlines
        /\ skip_planning =>
               \A p \in DOMAIN InitialDisk :
                   p \in DOMAIN disk /\ disk[p] = InitialDisk[p]
        /\ ~skip_planning =>
               /\ topic = DefaultTopic
               /\ goal = DefaultGoal
               /\ ~LoadedLogged
               /\ PlannerReturned = 0 => blog_roadmap = <<>>
               /\ \A k \in 1..Len(planner_calls) :
                      planner_calls[k] = [topic |-> DefaultTopic, goal |-> DefaultGoal]
               /\ error.type = "FileNotFoundError" => writer_returns # <<>>

\* a run that skipped planning with the stale roadmap document has written
\* both of its posts
C16_Witness ==
    /\ pc = "done"
    /\ skip_planning
    /\ roadmap_file = RoadmapPath
    /\ topic = <<"t">>
    /\ goal = <<"g">>
    /\ blog_roadmap = <<Outline2, Outline1>>
    /\ planner_calls = <<>>
    /\ Len(blog_posts) = 2
    /\ disk[RoadmapPath] = InitialDisk[RoadmapPath]

\* the file of a post failed to open: the writer had returned, and the error
\* is the open's
SaveFailed == error.type = "FileNotFoundError" /\ writer_returns # <<>>

\* every recorded post has its file, and at most one file is ahead of the list
PersistedBeforeRecorded ==
    /\ Len(PostWrites) - Len(blog_posts) \in {0, 1}
    /\ Len(PostWrites) = Len(blog_posts) + 1 => pc = "saved"
    /\ \A i \in 1..Len(blog_posts) :
          \E f \in DOMAIN disk :
              /\ PostWrites[i].name = f
              /\ disk[f] = blog_posts[i].content
    /\ SaveFailed =>
          /\ pc = "failed"
          /\ crew_raised = NotRaised
          /\ Len(blog_posts) = Len(writer_returns) - 1
          /\ Len(PostWrites) = Len(blog_posts)
          /\ Len(writer_calls) = Len(writer_returns)
          /\ \A i \in 1..Len(blog_posts) :
                blog_posts[i].content = writer_returns[i].content

\* the step that records a post finds the post's file already written
RecordsAfterFile ==
    blog_posts' # blog_posts =>
        /\ Len(PostWrites) = Len(blog_posts) + 1
        /\ PostWrites[Len(PostWrites)].content = blog_posts'[Len(blog_posts')].content
        /\ PostWrites[Len(PostWrites)].name \in DOMAIN disk
        /\ disk[PostWrites[Len(PostWrites)].name] = blog_posts'[Len(blog_posts')].content
        /\ UNCHANGED disk

\* C18: a post is appended to blog_posts only after its file has been written,
\* so every recorded post has its file on disk and the number of post files
\* written is len(blog_posts) or len(blog_posts)+1; when the file for index i
\* cannot be written the writer's post is not recorded and the run stops, the
\* earlier posts and files staying as they are.
C18_PersistBeforeRecord == [](PersistedBeforeRecorded) /\ [][RecordsAfterFile]_vars

\* the second post's file could not be opened after the first post was saved
\* and recorded
C18_Witness ==
    /\ SaveFailed
    /\ pc = "failed"
    /\ Len(writer_returns) = 2
    /\ Len(blog_posts) = 1
    /\ Len(PostWrites) = 1
    /\ Len(blog_roadmap) = 3

\* topic, goal, roadmap and posts of run r, the lists by value
RunView(r) ==
    [topic |-> m_state[r].topic,
     goal |-> m_state[r].goal,
     blog_roadmap |-> RunRoadmap(r),
     blog_posts |-> RunPosts(r)]

\* run r's lists hold what its own planner or parser and its own writer
\* calls returned, and no list object is held by both runs
OwnValuesOnly ==
    /\ \A r \in Runs :
          /\ RunRoadmap(r) = m_hist[r].roadmap
          /\ RunPosts(r) = m_hist[r].posts
          /\ Len(RunPosts(r)) = m_idx[r]
    /\ \A q, r \in Runs :
          q # r =>
              {m_state[q].blog_roadmap, m_state[q].blog_posts}
                  \cap {m_state[r].blog_roadmap, m_state[r].blog_posts} = {}

\* a step in which run r does not move leaves run r's state as it was
OtherRunUntouched ==
    \A r \in Runs :
        (m_pc'[r] = m_pc[r] /\ m_idx'[r] = m_idx[r]) => RunView(r)' = RunView(r)

\* C17: two BlogFlow objects running interleaved share no state: each run's
\* roadmap and posts hold only what that run's own planner or parser and
\* writer calls returned, and a step of one run leaves the other run's topic,
\* goal, roadmap and posts unchanged.
C17_RunsIsolated == [](OwnValuesOnly) /\ [][OtherRunUntouched]_vars

\* run 2 skipped planning and loaded the roadmap document run 1 had just
\* written; both wrote two posts, and the posts differ
C17_Witness ==
    /\ m_pc[1] = "done"
    /\ m_pc[2] = "done"
    /\ ~m_skip[1]
    /\ m_skip[2]
    /\ Len(RunPosts(1)) = 2
    /\ Len(RunPosts(2)) = 2
    /\ RunPosts(1) # RunPosts(2)
    /\ RunRoadmap(2) # <<Outline2, Outline1>>

====
